---- MODULE Spec2Model ----
(***************************************************************************)
(* The byte mutator of fuzzers/simple/cpp/simple-fuzzer.cpp as a state     *)
(* machine: one invocation of main() after another over a fixed file       *)
(* system, each invocation stepping through main() statement by statement. *)
(* Further down: the Go seed kept in the same file (fanIn, genInts) and    *)
(* the C seed c_fuzzing_seed.c (the flexible array of main(), next_kind).  *)
(***************************************************************************)
EXTENDS Integers, Sequences, FiniteSets

VARIABLES fs, now, prev, pc, argc, path, rng, seeds, input, data, i, out, err, status, draws

\* the loop over a buffer too long to write down: only its length, the
\* counter and the numbers of draws are kept (see SpecLarge)
VARIABLES build, size, ctr, decided, replaced

largeVars == <<build, size, ctr, decided, replaced>>

mainVars == <<fs, now, prev, argc, path, rng, seeds, input, data, i, out, err, status, draws>>

\* the Go seed kept in the same file: main() merging two genInts channels
\* through fanIn under a context with a timeout (see SpecGo)
VARIABLES ctxDone, gen, fwd, wg, closer, outCloses, gmain, merged, taken

goVars == <<ctxDone, gen, fwd, wg, closer, outCloses, gmain, merged, taken>>

\* the C seed c_fuzzing_seed.c: the flexible-array-member block of main()
\* (see SpecFlex) and the kind_t state machine next_kind (see SpecKind)
VARIABLES fpc, block, mem, fidx, ops, curKind, kstart, ksteps

flexVars == <<fpc, block, mem, fidx, ops>>

kindVars == <<curKind, kstart, ksteps>>

seedVars == <<goVars, flexVars, kindVars>>

vars == <<fs, now, prev, pc, argc, path, rng, seeds, input, data, i, out, err, status, draws,
          build, size, ctr, decided, replaced,
          ctxDone, gen, fwd, wg, closer, outCloses, gmain, merged, taken,
          fpc, block, mem, fidx, ops, curKind, kstart, ksteps>>

\* the seed programs are not running
GoIdle ==
    /\ ctxDone = FALSE
    /\ gen = <<>>
    /\ fwd = <<>>
    /\ wg = 0
    /\ closer = "none"
    /\ outCloses = 0
    /\ gmain = "none"
    /\ merged = <<>>
    /\ taken = <<>>

FlexIdle ==
    /\ fpc = "none"
    /\ block = "none"
    /\ mem = <<>>
    /\ fidx = 0
    /\ ops = <<>>

KindIdle == curKind = 0 /\ kstart = 0 /\ ksteps = 0

SeedIdle == GoIdle /\ FlexIdle /\ KindIdle

(***************************************************************************)
(* Bounds of the model.                                                    *)
(***************************************************************************)
\* longest file content
MaxLen == 2
\* largest argument count (program name included)
MaxArgc == 3
\* last clock reading, in ticks
MaxTick == 4
\* clock ticks per wall-clock second
TicksPerSec == 2
\* wall-clock second of tick 0
FirstSecond == 2

\* byte values that occur in the files: NUL, newline, a byte above 127
ByteSample == {0, 10, 255}

Paths == {"a", "b"}

\* argv[1] of an invocation that has no use for it (argc # 2)
NoPath == "-"

\* argv[0]
Program == "simple-fuzzer"

\* rand() of <stdlib.h> returns a value in 0..RAND_MAX
RAND_MAX == 32767

\* generator state before srand() has been called
Unseeded == -1

\* exit status of an invocation that has not returned yet
Running == -1

Bytes == 0..255

RECURSIVE SeqsUpTo(_, _)
SeqsUpTo(S, n) ==
    IF n = 0 THEN {<<>>}
    ELSE LET shorter == SeqsUpTo(S, n - 1)
         IN  shorter \cup {Append(s, x) : s \in {t \in shorter : Len(t) = n - 1}, x \in S}

Contents == SeqsUpTo(ByteSample, MaxLen)

AbsentFile == [exists |-> FALSE, readable |-> FALSE, bytes |-> <<>>]

UnreadableFile == [exists |-> TRUE, readable |-> FALSE, bytes |-> <<65>>]

ReadableFile(bs) == [exists |-> TRUE, readable |-> TRUE, bytes |-> bs]

(***************************************************************************)
(* char <-> byte: char is signed, a byte is 0..255.                        *)
(***************************************************************************)
ToChar(v) == IF v >= 128 THEN v - 256 ELSE v

ToByte(ch) == IF ch < 0 THEN ch + 256 ELSE ch

(***************************************************************************)
(* time(NULL): the clock reading truncated to whole seconds.               *)
(***************************************************************************)
\* variant: the generator is seeded with a fixed value
TimeFixed(t) == FirstSecond

\* a clock read at tick resolution instead of whole seconds
TimeInTicks(t) == (FirstSecond * TicksPerSec) + t

Time(t) == FirstSecond + (t \div TicksPerSec)

(***************************************************************************)
(* srand()/rand(): the reference generator of ISO C 7.22.2.2,              *)
(*   next = next * 1103515245 + 12345; return (next / 65536) % 32768;      *)
(* the state is kept modulo 2^31, which is all the returned value reads.   *)
(* 1103515245 = 16838 * 65536 + 20077; the products are formed limb by     *)
(* limb so that every intermediate value stays below 2^31.                 *)
(***************************************************************************)
AddMod31(x, y) ==
    IF x > 2147483647 - y THEN (x - (2147483647 - y)) - 1 ELSE x + y

Srand(seed) == seed

Rand(next) ==
    LET lo  == next % 65536
        hi  == next \div 65536
        mid == ((16838 * lo + 20077 * hi) % 32768) * 65536
    IN  AddMod31(AddMod31(mid, 20077 * lo), 12345)

RandValue(next) == (next \div 65536) % (RAND_MAX + 1)

(***************************************************************************)
(* The pieces of main().                                                   *)
(***************************************************************************)
\* variant: the argument count is not checked
ArgcAny(n) == n >= 0

\* variant: a missing argument is accepted
ArgcAtMost(n) == n <= 2

\* variant: extra arguments are accepted
ArgcAtLeast(n) == n >= 2

\* if (argc != 2)
ArgcOk(n) == n = 2

\* variant: a file that exists counts as open, readable or not
IsOpenIfExists(f, p) == p \in DOMAIN f /\ f[p].exists

\* ifstream input(argv[1]); input.is_open()
IsOpen(f, p) == p \in DOMAIN f /\ f[p].exists /\ f[p].readable

\* variant: the stream is opened for writing with truncation
FsAfterOpenTruncating(f, p) ==
    IF p \in DOMAIN f THEN [f EXCEPT ![p] = ReadableFile(<<>>)] ELSE f

\* opening an ifstream reads the file system and leaves it as it is
FsAfterOpen(f, p) == f

\* variant: formatted extraction, which drops white space
RECURSIVE ReadAllSkipSpace(_)
ReadAllSkipSpace(bs) ==
    IF bs = <<>> THEN <<>>
    ELSE IF Head(bs) \in {9, 10, 11, 12, 13, 32} THEN ReadAllSkipSpace(Tail(bs))
    ELSE <<ToChar(Head(bs))>> \o ReadAllSkipSpace(Tail(bs))

\* string data(istreambuf_iterator<char>(input), istreambuf_iterator<char>()):
\* one char appended per byte of the stream, up to end of file
RECURSIVE ReadAll(_)
ReadAll(bs) ==
    IF bs = <<>> THEN <<>>
    ELSE <<ToChar(Head(bs))>> \o ReadAll(Tail(bs))

\* variant: the loop runs one index too far
LoopCondInclusive(k, len) == k <= len

\* i < data.length()
LoopCond(k, len) == k < len

\* variant: one generator value in three selects a replacement
ShouldReplaceOneInThree(d) == d % 3 = 0

\* variant: the decision never selects a replacement
NeverReplace(d) == FALSE

\* rand() % 2 == 0
ShouldReplace(d) == d % 2 = 0

\* variant: the replacement value is reduced to seven bits
ReplacementChar7Bit(r) == ToChar(r % 128)

\* variant: the replacement value is reduced modulo 255
ReplacementCharMod255(r) == ToChar(r % 255)

\* char c = (char)(rand() % 256)
ReplacementChar(r) == ToChar(r % 256)

\* variant: a NUL char in the buffer is never replaced
SetCharKeepNul(s, k, ch) == IF s[k + 1] = 0 THEN s ELSE [s EXCEPT ![k + 1] = ch]

\* variant: the char is inserted before index k instead of replacing it
SetCharInsert(s, k, ch) == SubSeq(s, 1, k) \o <<ch>> \o SubSeq(s, k + 1, Len(s))

\* data[i] = c   (i counts from 0)
SetChar(s, k, ch) == [s EXCEPT ![k + 1] = ch]

\* variant: the string is written as a C string, up to its first NUL
RECURSIVE WriteCString(_)
WriteCString(s) ==
    IF s = <<>> \/ Head(s) = 0 THEN <<>>
    ELSE <<ToByte(Head(s))>> \o WriteCString(Tail(s))

\* cout << data : the size() chars of the string, each as one byte
RECURSIVE WriteString(_)
WriteString(s) ==
    IF s = <<>> THEN <<>>
    ELSE <<ToByte(Head(s))>> \o WriteString(Tail(s))

\* << endl : one newline
Endl == <<10>>

\* the loop of main() from index k on, as a function of the buffer and the
\* generator state: the buffer when the loop condition fails
RECURSIVE MutateFrom(_, _, _)
MutateFrom(s, k, g) ==
    IF ~LoopCond(k, Len(s)) THEN s
    ELSE LET g1 == Rand(g)
         IN  IF ShouldReplace(RandValue(g1))
                THEN LET g2 == Rand(g1)
                     IN  MutateFrom(SetChar(s, k, ReplacementChar(RandValue(g2))), k + 1, g2)
                ELSE MutateFrom(s, k + 1, g1)

\* variant: the return after a report is missing and control falls through
AfterReportFallThrough(from) == IF from = "start" THEN "srand" ELSE "read"

\* return 1; follows the report of an error found at control point `from`
AfterReport(from) == "fail"

UsageMessage(prog) == <<"Usage: ", prog, " <input_file>", "\n">>

\* variant: the usage line is written after the open error as well
OpenErrorThenUsage(p) ==
    <<"Error: Unable to open input file ", p, "\n", "Usage: ", Program, " <input_file>", "\n">>

OpenErrorMessage(p) == <<"Error: Unable to open input file ", p, "\n">>

(***************************************************************************)
(* An invocation: argument count and argv[1].  A file system: "a" is a     *)
(* readable file of any content; "b" is absent, unreadable, or a readable  *)
(* file of newlines.                                                       *)
(***************************************************************************)
Invocations ==
    {[argc |-> n, path |-> NoPath] : n \in (1..MaxArgc) \ {2}}
        \cup {[argc |-> 2, path |-> p] : p \in Paths}

FileSystems ==
    {[p \in Paths |-> IF p = "a" THEN fa ELSE fb] :
        fa \in {ReadableFile(bs) : bs \in Contents},
        fb \in {AbsentFile, UnreadableFile}
                  \cup {ReadableFile(bs) : bs \in SeqsUpTo({10}, MaxLen)}}

(***************************************************************************)
(* The loop header  for (int i = 0; i < data.length(); i++)  over a buffer *)
(* of 2^31 bytes or so.  Numbers beyond the range of int are kept in two   *)
(* limbs: [hi, lo] stands for hi * 2^31 + lo with lo in 0..INT_MAX.  The   *)
(* counter i is an int: hi = 0, or hi = -1 for a negative value.           *)
(***************************************************************************)
\* largest value of int
INT_MAX == 2147483647

\* how far from 2^31 the lengths and the starting indices are taken
Window == 3

Wide(n) == [hi |-> 0, lo |-> n]

WideInc(w) ==
    IF w.lo = INT_MAX THEN [hi |-> w.hi + 1, lo |-> 0]
    ELSE [hi |-> w.hi, lo |-> w.lo + 1]

WideLess(a, b) == a.hi < b.hi \/ (a.hi = b.hi /\ a.lo < b.lo)

\* what a build makes of i++ at INT_MAX, which the language leaves undefined:
\* the 32-bit register wraps to INT_MIN, or the counter is kept in a 64-bit
\* register and goes on to 2^31
Builds == {"wrap", "widen"}

\* i++
IncrementInt(c, b) ==
    IF c.hi = 0 /\ c.lo = INT_MAX
       THEN IF b = "wrap" THEN [hi |-> -1, lo |-> 0] ELSE [hi |-> 1, lo |-> 0]
       ELSE WideInc(c)

\* i < data.length(): i is converted to size_t, and a negative i becomes a
\* value above every length a string can have
LoopCondLarge(c, n) == c.hi >= 0 /\ WideLess(c, n)

\* the large loop is not running
LargeIdle ==
    /\ build = "wrap"
    /\ size = Wide(0)
    /\ ctr = Wide(0)
    /\ decided = Wide(0)
    /\ replaced = Wide(0)

\* lengths 2^31 - Window .. 2^31 + Window
LargeSizes ==
    {[hi |-> 0, lo |-> INT_MAX - e] : e \in 0..(Window - 1)}
        \cup {[hi |-> 1, lo |-> e] : e \in 0..Window}

\* the loop has reached an index shortly before INT_MAX: every position
\* before it has had its decision draw, and none or all of them a value draw
InitLarge ==
    /\ build \in Builds
    /\ size \in LargeSizes
    /\ ctr \in {Wide(INT_MAX - e) : e \in 0..Window}
    /\ ~WideLess(size, ctr)
    /\ decided = ctr
    /\ replaced \in {Wide(0), ctr}
    /\ pc = "loop"
    /\ fs = [p \in Paths |-> AbsentFile]
    /\ now = 0
    /\ prev = <<>>
    /\ argc = 2
    /\ path = "a"
    /\ rng = Srand(Time(0))
    /\ seeds = <<Time(0)>>
    /\ input = "closed"
    /\ data = <<>>
    /\ i = 0
    /\ out = <<>>
    /\ err = <<>>
    /\ status = Running
    /\ draws = <<>>
    /\ SeedIdle

\* i < data.length()  and  if (rand() % 2 == 0), rand() being even or odd
LargeDecide ==
    /\ pc = "loop"
    /\ LoopCondLarge(ctr, size)
    /\ decided' = WideInc(decided)
    /\ \E d \in 0..1 :
          IF ShouldReplace(d)
             THEN pc' = "replace" /\ ctr' = ctr
             ELSE pc' = "loop" /\ ctr' = IncrementInt(ctr, build)
    /\ UNCHANGED <<build, size, replaced>>
    /\ UNCHANGED mainVars
    /\ UNCHANGED seedVars

\* char c = (char)(rand() % 256);  data[i] = c;  i++
LargeReplace ==
    /\ pc = "replace"
    /\ replaced' = WideInc(replaced)
    /\ ctr' = IncrementInt(ctr, build)
    /\ pc' = "loop"
    /\ UNCHANGED <<build, size, decided>>
    /\ UNCHANGED mainVars
    /\ UNCHANGED seedVars

\* the loop condition fails
LargeExit ==
    /\ pc = "loop"
    /\ ~LoopCondLarge(ctr, size)
    /\ pc' = "return"
    /\ UNCHANGED largeVars
    /\ UNCHANGED seedVars
    /\ UNCHANGED mainVars
    /\ UNCHANGED seedVars

NextLarge == LargeDecide \/ LargeReplace \/ LargeExit

SpecLarge == InitLarge /\ [][NextLarge]_vars

Init ==
    /\ fs \in FileSystems
    /\ now \in 0..MaxTick
    /\ prev = <<>>
    /\ \E inv \in Invocations : argc = inv.argc /\ path = inv.path
    /\ pc = "start"
    /\ rng = Unseeded
    /\ seeds = <<>>
    /\ input = "none"
    /\ data = <<>>
    /\ i = 0
    /\ out = <<>>
    /\ err = <<>>
    /\ status = Running
    /\ draws = <<>>
    /\ LargeIdle
    /\ SeedIdle

\* if (argc != 2) { cerr << "Usage: " << argv[0] << " <input_file>" << endl;
UsageError ==
    /\ pc = "start"
    /\ ~ArgcOk(argc)
    /\ err' = err \o UsageMessage(Program)
    /\ pc' = AfterReport("start")
    /\ UNCHANGED <<fs, now, prev, argc, path, rng, seeds, input, data, i, out, status, draws>>
    /\ UNCHANGED largeVars
    /\ UNCHANGED seedVars

ArgsAccepted ==
    /\ pc = "start"
    /\ ArgcOk(argc)
    /\ pc' = "srand"
    /\ UNCHANGED <<fs, now, prev, argc, path, rng, seeds, input, data, i, out, err, status, draws>>
    /\ UNCHANGED largeVars
    /\ UNCHANGED seedVars

\* return 1;
ExitFailure ==
    /\ pc = "fail"
    /\ status' = 1
    /\ pc' = "done"
    /\ UNCHANGED <<fs, now, prev, argc, path, rng, seeds, input, data, i, out, err, draws>>
    /\ UNCHANGED largeVars
    /\ UNCHANGED seedVars

\* srand(time(NULL));
Seed ==
    /\ pc = "srand"
    /\ rng' = Srand(Time(now))
    /\ seeds' = Append(seeds, Time(now))
    /\ pc' = "open"
    /\ UNCHANGED <<fs, now, prev, argc, path, input, data, i, out, err, status, draws>>
    /\ UNCHANGED largeVars
    /\ UNCHANGED seedVars

\* ifstream input(argv[1]);  is_open()
OpenOk ==
    /\ pc = "open"
    /\ IsOpen(fs, path)
    /\ fs' = FsAfterOpen(fs, path)
    /\ input' = "open"
    /\ pc' = "read"
    /\ UNCHANGED <<now, prev, argc, path, rng, seeds, data, i, out, err, status, draws>>
    /\ UNCHANGED largeVars
    /\ UNCHANGED seedVars

\* if (!input.is_open()) { cerr << "Error: Unable to open input file " << argv[1] << endl;
OpenFailed ==
    /\ pc = "open"
    /\ ~IsOpen(fs, path)
    /\ fs' = FsAfterOpen(fs, path)
    /\ input' = "failed"
    /\ err' = err \o OpenErrorMessage(path)
    /\ pc' = AfterReport("open")
    /\ UNCHANGED <<now, prev, argc, path, rng, seeds, data, i, out, status, draws>>
    /\ UNCHANGED largeVars
    /\ UNCHANGED seedVars

\* string data(...);
ReadFile ==
    /\ pc = "read"
    /\ data' = ReadAll(fs[path].bytes)
    /\ pc' = "close"
    /\ UNCHANGED <<fs, now, prev, argc, path, rng, seeds, input, i, out, err, status, draws>>
    /\ UNCHANGED largeVars
    /\ UNCHANGED seedVars

\* input.close();  for (int i = 0; ...
CloseFile ==
    /\ pc = "close"
    /\ input' = "closed"
    /\ i' = 0
    /\ pc' = "loop"
    /\ UNCHANGED <<fs, now, prev, argc, path, rng, seeds, data, out, err, status, draws>>
    /\ UNCHANGED largeVars
    /\ UNCHANGED seedVars

\* i < data.length()  and  if (rand() % 2 == 0)
Decide ==
    /\ pc = "loop"
    /\ LoopCond(i, Len(data))
    /\ rng' = Rand(rng)
    /\ draws' = Append(draws, [pos |-> i, kind |-> "decision", val |-> RandValue(rng')])
    /\ IF ShouldReplace(RandValue(rng'))
          THEN pc' = "replace" /\ i' = i
          ELSE pc' = "loop" /\ i' = i + 1
    /\ UNCHANGED <<fs, now, prev, argc, path, seeds, input, data, out, err, status>>
    /\ UNCHANGED largeVars
    /\ UNCHANGED seedVars

\* char c = (char)(rand() % 256);  data[i] = c;  i++
Replace ==
    /\ pc = "replace"
    /\ rng' = Rand(rng)
    /\ draws' = Append(draws, [pos |-> i, kind |-> "value", val |-> RandValue(rng')])
    /\ data' = SetChar(data, i, ReplacementChar(RandValue(rng')))
    /\ i' = i + 1
    /\ pc' = "loop"
    /\ UNCHANGED <<fs, now, prev, argc, path, seeds, input, out, err, status>>
    /\ UNCHANGED largeVars
    /\ UNCHANGED seedVars

\* the loop condition fails:  cout << data << endl;
WriteOutput ==
    /\ pc = "loop"
    /\ ~LoopCond(i, Len(data))
    /\ out' = out \o WriteString(data) \o Endl
    /\ pc' = "return"
    /\ UNCHANGED <<fs, now, prev, argc, path, rng, seeds, input, data, i, err, status, draws>>
    /\ UNCHANGED largeVars
    /\ UNCHANGED seedVars

\* return 0;
ExitSuccess ==
    /\ pc = "return"
    /\ status' = 0
    /\ pc' = "done"
    /\ UNCHANGED <<fs, now, prev, argc, path, rng, seeds, input, data, i, out, err, draws>>
    /\ UNCHANGED largeVars
    /\ UNCHANGED seedVars

\* what is left of a finished invocation
Finished ==
    [argc |-> argc, path |-> path, tick |-> now, out |-> out, err |-> err,
     status |-> status, data |-> data, draws |-> draws]

\* the process has exited; the next one starts, no earlier on the clock
NextInvocation ==
    /\ pc = "done"
    /\ prev' = <<Finished>>
    /\ now' \in now..MaxTick
    /\ \E inv \in Invocations : argc' = inv.argc /\ path' = inv.path
    /\ pc' = "start"
    /\ rng' = Unseeded
    /\ seeds' = <<>>
    /\ input' = "none"
    /\ data' = <<>>
    /\ i' = 0
    /\ out' = <<>>
    /\ err' = <<>>
    /\ status' = Running
    /\ draws' = <<>>
    /\ UNCHANGED fs
    /\ UNCHANGED largeVars
    /\ UNCHANGED seedVars

Next ==
    \/ UsageError
    \/ ArgsAccepted
    \/ ExitFailure
    \/ Seed
    \/ OpenOk
    \/ OpenFailed
    \/ ReadFile
    \/ CloseFile
    \/ Decide
    \/ Replace
    \/ WriteOutput
    \/ ExitSuccess
    \/ NextInvocation

Spec == Init /\ [][Next]_vars

(***************************************************************************)
(* Properties.                                                             *)
(***************************************************************************)
\* the invocation was given one path argument that names a readable file
HasInput == argc = 2 /\ path \in DOMAIN fs /\ fs[path].exists /\ fs[path].readable

InputBytes == fs[path].bytes

\* control points at which the buffer holds the file
BufferLive == {"close", "loop", "replace", "return", "done"}

DrawsAt(k, kind) == {n \in 1..Len(draws) : draws[n].pos = k /\ draws[n].kind = kind}

\* C1: from the read to the exit the buffer has the length of the input file,
\* and every position the loop has not reached yet still holds the input byte.
C1_LengthPreserved ==
    (HasInput /\ pc \in BufferLive) =>
        /\ Len(data) = Len(InputBytes)
        /\ \A k \in 1..Len(data) : k > i => ToByte(data[k]) = InputBytes[k]

C1_Witness ==
    /\ pc = "done" /\ status = 0
    /\ Len(data) = MaxLen
    /\ DrawsAt(MaxLen - 1, "value") # {}

\* C2: with one path argument naming an openable file of length L the run ends
\* with status 0 and standard output is the L buffer bytes in order, then one
\* newline as the last of L+1 bytes.
C2_OutputIsBufferThenNewline ==
    (pc = "done" /\ HasInput) =>
        /\ status = 0
        /\ Len(data) = Len(InputBytes)
        /\ Len(out) = Len(InputBytes) + 1
        /\ \A k \in 1..Len(InputBytes) : out[k] = ToByte(data[k])
        /\ out[Len(out)] = 10

C2_Witness ==
    /\ pc = "done" /\ HasInput
    /\ Len(out) = MaxLen + 1
    /\ out[1] = 0
    /\ DrawsAt(1, "value") # {}

\* C3: with an argument count other than one path argument the run ends with
\* status 1, the usage message on the error stream and nothing on standard output.
C3_UsageErrorOutcome ==
    (pc = "done" /\ argc # 2) =>
        /\ status = 1
        /\ err = <<"Usage: ", Program, " <input_file>", "\n">>
        /\ out = <<>>

C3_Witness ==
    /\ pc = "done" /\ argc = 1 /\ status = 1
    /\ prev # <<>> /\ prev[1].argc = MaxArgc /\ prev[1].status = 1 /\ prev[1].out = <<>>

\* C4: with one path argument naming no file, or a file that cannot be read,
\* the run ends with status 1, the open error naming the path on the error
\* stream and nothing on standard output.
C4_OpenFailureOutcome ==
    (pc = "done" /\ argc = 2 /\ ~(fs[path].exists /\ fs[path].readable)) =>
        /\ status = 1
        /\ err = <<"Error: Unable to open input file ", path, "\n">>
        /\ out = <<>>

C4_Witness ==
    /\ pc = "done" /\ argc = 2 /\ status = 1
    /\ fs[path].exists /\ ~fs[path].readable
    /\ err = <<"Error: Unable to open input file ", "b", "\n">>

\* C5: on an empty input file the run never draws from the generator, and it
\* ends with status 0 and a single newline on standard output.
C5_EmptyInput ==
    (HasInput /\ InputBytes = <<>>) =>
        /\ draws = <<>>
        /\ pc = "done" => (status = 0 /\ out = <<10>>)

C5_Witness ==
    /\ pc = "done" /\ HasInput /\ InputBytes = <<>>
    /\ out = <<10>> /\ rng # Unseeded

\* the previous invocation had a readable input file
PrevHadInput ==
    /\ prev # <<>>
    /\ prev[1].argc = 2
    /\ fs[prev[1].path].exists /\ fs[prev[1].path].readable

SameSecond(t1, t2) == (t1 \div TicksPerSec) = (t2 \div TicksPerSec)

\* C6: two invocations over the same input bytes, started in the same
\* wall-clock second, end with the same standard output and the same status.
C6_SameSecondSameOutput ==
    (/\ pc = "done" /\ HasInput /\ PrevHadInput
     /\ fs[prev[1].path].bytes = InputBytes
     /\ SameSecond(prev[1].tick, now)) =>
        (out = prev[1].out /\ status = prev[1].status)

C6_Witness ==
    /\ pc = "done" /\ HasInput /\ PrevHadInput
    /\ fs[prev[1].path].bytes = InputBytes
    /\ prev[1].path # path
    /\ SameSecond(prev[1].tick, now) /\ prev[1].tick # now
    /\ Len(InputBytes) = MaxLen
    /\ DrawsAt(0, "value") # {}
    /\ out = prev[1].out

\* C7: every position the loop has passed has exactly one decision draw; an odd
\* decision leaves the input byte and takes no further draw, an even decision
\* takes exactly one value draw r and leaves r mod 256; the position the loop
\* is at has at most its decision draw, later positions have none; the byte
\* written to standard output at a position is the buffer byte there.
C7_PerPositionDraws ==
    (HasInput /\ pc \in BufferLive) =>
        \A k \in 0..(Len(InputBytes) - 1) :
            LET dec == DrawsAt(k, "decision")
                val == DrawsAt(k, "value")
            IN  /\ k < i =>
                    /\ Cardinality(dec) = 1
                    /\ LET d == draws[CHOOSE n \in dec : TRUE].val
                       IN  IF d % 2 = 0
                              THEN /\ Cardinality(val) = 1
                                   /\ ToByte(data[k + 1]) = draws[CHOOSE n \in val : TRUE].val % 256
                              ELSE /\ val = {}
                                   /\ ToByte(data[k + 1]) = InputBytes[k + 1]
                /\ k = i => (val = {} /\ Cardinality(dec) = IF pc = "replace" THEN 1 ELSE 0)
                /\ k > i => (val = {} /\ dec = {})
                /\ pc = "done" => out[k + 1] = ToByte(data[k + 1])

C7_Witness ==
    /\ pc = "done" /\ HasInput /\ Len(InputBytes) = MaxLen
    /\ DrawsAt(0, "value") = {} /\ out[1] = InputBytes[1]
    /\ DrawsAt(1, "value") # {} /\ out[MaxLen] # InputBytes[MaxLen]

\* seconds a run can be started in, from the epoch to the end of the clock
Seconds == 0..Time(MaxTick)

\* C8: no non-empty buffer is fixed by the loop under every seed: for the
\* input of a run and for the buffer it ends with there is a second in which
\* a run changes it; and a run over the standard output of the previous run
\* never writes that output again.
C8_NoGuaranteedFixedPoint ==
    (pc = "done" /\ HasInput /\ InputBytes # <<>>) =>
        /\ data = MutateFrom(ReadAll(InputBytes), 0, Srand(Time(now)))
        /\ \E sec \in Seconds : MutateFrom(data, 0, Srand(sec)) # data
        /\ \E sec \in Seconds :
              MutateFrom(ReadAll(InputBytes), 0, Srand(sec)) # ReadAll(InputBytes)
        /\ (PrevHadInput /\ InputBytes = prev[1].out) => out # prev[1].out

C8_Witness ==
    /\ pc = "done" /\ HasInput /\ PrevHadInput
    /\ InputBytes = prev[1].out
    /\ Len(InputBytes) = MaxLen
    /\ data # ReadAll(InputBytes)
    /\ \E t \in 0..MaxTick :
          MutateFrom(data, 0, Srand(Time(t))) \notin {data, ReadAll(InputBytes)}

\* the equally weighted outcomes at one position: the parity of the decision
\* draw and the value of the replacement draw reduced to 0..255
Outcomes == (0..1) \X Bytes

\* the byte one loop iteration leaves at a position holding byte b
OutcomeByte(b, o) ==
    IF ShouldReplace(o[1]) THEN ToByte(ReplacementChar(o[2])) ELSE b

Differing(b) == {o \in Outcomes : OutcomeByte(b, o) # b}

\* C9 as stated: exactly half of the outcomes at a position leave a byte
\* that differs from the original byte.
C9_HalfOfOutcomesDiffer ==
    (pc = "loop" /\ LoopCond(i, Len(data))) =>
        2 * Cardinality(Differing(ToByte(data[i + 1]))) = Cardinality(Outcomes)

\* C9 amended: 255 of the 512 outcomes leave a differing byte: the 256 outcomes
\* with an odd decision and the one even outcome whose value is the original
\* byte leave the original byte.
C9_DifferingOutcomes ==
    (pc = "loop" /\ LoopCond(i, Len(data))) =>
        LET b == ToByte(data[i + 1])
        IN  /\ Cardinality(Outcomes) = 512
            /\ Cardinality(Differing(b)) = 255
            /\ Outcomes \ Differing(b) = ({1} \X Bytes) \cup {<<0, b>>}

C9_Witness ==
    /\ pc = "done" /\ HasInput /\ Len(InputBytes) = 1
    /\ InputBytes[1] >= 128
    /\ DrawsAt(0, "value") # {}
    /\ out[1] # InputBytes[1]

\* C10: no step of any invocation changes the file system; within an
\* invocation standard output and the error stream only grow.
C10_FileSystemUnchanged ==
    [][/\ fs' = fs
       /\ pc # "done" =>
            /\ Len(out') >= Len(out) /\ SubSeq(out', 1, Len(out)) = out
            /\ Len(err') >= Len(err) /\ SubSeq(err', 1, Len(err)) = err]_vars

C10_Witness ==
    /\ pc = "done" /\ status = 0 /\ Len(out) = MaxLen + 1
    /\ prev # <<>> /\ prev[1].status = 1 /\ prev[1].argc = 2
    /\ ~fs["b"].exists

(***************************************************************************)
(* The loop over a one-byte file, for every value of the byte.             *)
(***************************************************************************)
InitByte ==
    /\ fs \in {[p \in Paths |-> IF p = "a" THEN ReadableFile(<<b>>) ELSE fb] :
                  b \in Bytes, fb \in {AbsentFile}}
    /\ now \in 0..MaxTick
    /\ prev = <<>>
    /\ \E inv \in Invocations : argc = inv.argc /\ path = inv.path
    /\ pc = "start"
    /\ rng = Unseeded
    /\ seeds = <<>>
    /\ input = "none"
    /\ data = <<>>
    /\ i = 0
    /\ out = <<>>
    /\ err = <<>>
    /\ status = Running
    /\ draws = <<>>
    /\ LargeIdle
    /\ SeedIdle

SpecByte == InitByte /\ [][Next]_vars

\* the three ways an invocation ends
EndsInSuccess == status = 0 /\ argc = 2 /\ input = "closed" /\ err = <<>>

EndsInUsageError ==
    /\ status = 1 /\ argc # 2 /\ input = "none"
    /\ err = <<"Usage: ", Program, " <input_file>", "\n">>

EndsInIOError ==
    /\ status = 1 /\ argc = 2 /\ input = "failed"
    /\ err = <<"Error: Unable to open input file ", path, "\n">>

\* C11: an invocation that has ended has ended in exactly one of success
\* (status 0), usage error (status 1) and open error (status 1); once the
\* argument count is accepted and the file is open no error is reported and
\* the status, once set, is 0.
C11_ThreeOutcomes ==
    /\ pc = "done" =>
          /\ EndsInSuccess \/ EndsInUsageError \/ EndsInIOError
          /\ ~(EndsInSuccess /\ EndsInUsageError)
          /\ ~(EndsInSuccess /\ EndsInIOError)
          /\ ~(EndsInUsageError /\ EndsInIOError)
          /\ EndsInSuccess <=> HasInput
    /\ input \in {"open", "closed"} =>
          /\ argc = 2
          /\ pc # "fail"
          /\ err = <<>>
          /\ status = IF pc = "done" THEN 0 ELSE Running

C11_Witness ==
    /\ pc = "done" /\ EndsInIOError
    /\ prev # <<>> /\ prev[1].status = 0 /\ prev[1].err = <<>>

NewlinesIn(s) == Cardinality({n \in 1..Len(s) : s[n] = "\n"})

\* C12: a run that has ended wrote to the error stream exactly when its status
\* is 1 and to standard output exactly when its status is 0; each stream is
\* written at most once in a run, a successful run writes the buffer and its
\* newline to standard output and nothing to the error stream, and a failing
\* run writes one message, ended by its one newline, to the error stream.
C12_StreamsMatchStatus ==
    /\ [](/\ pc = "done" => ((status = 1 <=> err # <<>>) /\ (status = 0 <=> out # <<>>))
          /\ out # <<>> => (err = <<>> /\ Len(out) = Len(data) + 1)
          /\ err # <<>> =>
                (out = <<>> /\ NewlinesIn(err) = 1 /\ err[Len(err)] = "\n"))
    /\ [][pc # "done" =>
            /\ out' # out => (out = <<>> /\ pc = "loop")
            /\ err' # err => (err = <<>> /\ pc \in {"start", "open"})]_vars

C12_Witness ==
    /\ pc = "done" /\ status = 0 /\ Len(out) = MaxLen + 1 /\ err = <<>>
    /\ prev # <<>> /\ prev[1].status = 1 /\ prev[1].out = <<>> /\ prev[1].err # <<>>

\* ------------------------------------------------------------------------
\* C13.  Every invocation terminates: for an input of length L the mutation
\* loop executes exactly L iterations, each taking at most two draws.
\* Stated over the loop on a large buffer: when the loop is left, exactly
\* `size` decisions have been taken and no more replacements than
\* decisions.  With L > INT_MAX + 1 the build in which int wraps leaves the
\* loop after INT_MAX + 1 iterations (the counter is the subject of C20).
C13_LoopRunsLengthIterations ==
    pc = "return" => (decided = size /\ ~WideLess(decided, replaced))

\* sum of two wide numbers, without leaving the 32-bit range in a limb
WideAdd(a, b) ==
    IF a.lo > INT_MAX - b.lo
       THEN [hi |-> a.hi + b.hi + 1, lo |-> a.lo - (INT_MAX - b.lo) - 1]
       ELSE [hi |-> a.hi + b.hi, lo |-> a.lo + b.lo]

\* rand() calls made by the loop so far: one per decision, one per replacement
LargeDraws == WideAdd(decided, replaced)

\* ------------------------------------------------------------------------
\* C14.  Positions are decided in increasing index order, each exactly
\* once, the value draw follows its decision draw directly, and the run
\* makes L + (number of replaced positions) draws in total.  Over the loop
\* on a large buffer: the position decided next is the number of decisions
\* taken so far, a pending replacement belongs to the position decided
\* last, and when the loop is left the draws number size + replaced.
C14_InOrderAndDrawTotal ==
    /\ (pc = "loop" /\ LoopCondLarge(ctr, size)) => ctr = decided
    /\ pc = "replace" => WideInc(ctr) = decided
    /\ pc = "return" => LargeDraws = WideAdd(size, replaced)

\* ------------------------------------------------------------------------
\* C15 as stated: the generator is seeded exactly once per invocation.
\* A run that ends with the usage error returns before srand is reached.
C15_SeededExactlyOnce ==
    pc = "done" => Len(seeds) = 1

\* C15, amended: srand is called at most once per invocation: never in a
\* run that ends with the usage error, and exactly once, with the clock in
\* whole seconds, in every run with one argument, before the file is
\* opened and so before any draw; the loop only steps the generator, it
\* never seeds it.
C15_SeededOnceBeforeDecisions ==
    /\ [](/\ Len(seeds) <= 1
          /\ argc # 2 => (seeds = <<>> /\ rng = Unseeded /\ draws = <<>>)
          /\ (argc = 2 /\ pc \notin {"start", "srand"}) => Len(seeds) = 1
          /\ draws # <<>> => Len(seeds) = 1
          /\ seeds # <<>> => seeds[1] = FirstSecond + (now \div TicksPerSec)
          /\ (seeds # <<>> /\ draws = <<>>) => rng = seeds[1])
    /\ [][pc # "done" =>
            /\ seeds' # seeds =>
                  (pc = "srand" /\ seeds = <<>> /\ draws = <<>> /\ input = "none")
            /\ pc \in {"loop", "replace"} =>
                  (seeds' = seeds /\ (rng' # rng => rng' = Rand(rng)))
            /\ draws' # draws => (seeds' = seeds /\ Len(seeds) = 1)]_vars

C15_Witness ==
    /\ pc = "done" /\ status = 0
    /\ Len(seeds) = 1 /\ seeds[1] > FirstSecond
    /\ Len(draws) > Len(data)
    /\ prev # <<>> /\ prev[1].status = 1 /\ prev[1].draws = <<>>

(***************************************************************************)
(* The loop over a one-byte buffer with the generator left open: rand()   *)
(* may return any value of its range 0..RAND_MAX, sampled at both ends of *)
(* the range and, for the replacement value, over one full period of the  *)
(* reduction modulo 256.                                                  *)
(***************************************************************************)
GeneratorValues == 0..RAND_MAX

DecisionSample == {0, 1, RAND_MAX - 1, RAND_MAX}

ValueSample == (0..256) \cup {RAND_MAX - 255, RAND_MAX - 1, RAND_MAX}

InitDraw ==
    /\ fs \in {[p \in Paths |-> IF p = "a" THEN ReadableFile(<<b>>) ELSE AbsentFile] :
                  b \in ByteSample}
    /\ now = 0
    /\ prev = <<>>
    /\ argc = 2 /\ path = "a"
    /\ pc = "loop"
    /\ rng = Srand(Time(now))
    /\ seeds = <<Time(now)>>
    /\ input = "closed"
    /\ data = ReadAll(fs["a"].bytes)
    /\ i = 0
    /\ out = <<>>
    /\ err = <<>>
    /\ status = Running
    /\ draws = <<>>
    /\ LargeIdle
    /\ SeedIdle

\* if (rand() % 2 == 0)
DrawDecide ==
    /\ pc = "loop"
    /\ LoopCond(i, Len(data))
    /\ \E d \in DecisionSample :
          /\ draws' = Append(draws, [pos |-> i, kind |-> "decision", val |-> d])
          /\ IF ShouldReplace(d)
                THEN pc' = "replace" /\ i' = i
                ELSE pc' = "loop" /\ i' = i + 1
    /\ UNCHANGED <<fs, now, prev, argc, path, rng, seeds, input, data, out, err, status>>
    /\ UNCHANGED largeVars
    /\ UNCHANGED seedVars

\* char c = (char)(rand() % 256);  data[i] = c;  i++
DrawReplace ==
    /\ pc = "replace"
    /\ \E r \in ValueSample :
          /\ draws' = Append(draws, [pos |-> i, kind |-> "value", val |-> r])
          /\ data' = SetChar(data, i, ReplacementChar(r))
    /\ i' = i + 1
    /\ pc' = "loop"
    /\ UNCHANGED <<fs, now, prev, argc, path, rng, seeds, input, out, err, status>>
    /\ UNCHANGED largeVars
    /\ UNCHANGED seedVars

\* the loop condition fails
DrawExit ==
    /\ pc = "loop"
    /\ ~LoopCond(i, Len(data))
    /\ pc' = "return"
    /\ UNCHANGED mainVars
    /\ UNCHANGED largeVars
    /\ UNCHANGED seedVars

NextDraw == DrawDecide \/ DrawReplace \/ DrawExit

SpecDraw == InitDraw /\ [][NextDraw]_vars

\* ------------------------------------------------------------------------
\* C16.  RAND_MAX + 1 is a power of two, at least 256.  Exactly half of
\* the generator values select "replace", and they are the even ones; a
\* replacement value is in 0..255 and is the draw modulo 256; every value
\* in 0..255 is produced by some generator value; and the value a
\* replacement produced has exactly (RAND_MAX + 1) / 256 generator values
\* mapping to it, the same number for each of the 256 values.
IsPowerOfTwo(n) == \E e \in 0..30 : 2 ^ e = n

C16_DrawDistribution ==
    /\ IsPowerOfTwo(RAND_MAX + 1) /\ RAND_MAX + 1 >= 256
    /\ \A n \in 1..Len(draws) :
          draws[n].kind = "decision" =>
              (draws[n].val % 2 = 0 <=>
                   (n < Len(draws) \/ pc = "replace") /\
                   (n = Len(draws) \/ draws[n + 1].kind = "value"))
    /\ pc = "replace" =>
          2 * Cardinality({d \in GeneratorValues : ShouldReplace(d)}) = RAND_MAX + 1
    /\ \A b \in Bytes : \A r \in {b, RAND_MAX - 255 + b} : ToByte(ReplacementChar(r)) = b
    /\ (pc = "loop" /\ DrawsAt(0, "value") # {}) =>
          LET r == draws[Len(draws)].val
          IN  /\ ToByte(data[1]) \in 0..255
              /\ ToByte(data[1]) = r % 256
              /\ 256 * Cardinality({g \in GeneratorValues : ReplacementChar(g) = data[1]})
                   = RAND_MAX + 1
    /\ (pc = "return" /\ DrawsAt(0, "value") = {}) => ToByte(data[1]) = InputBytes[1]

C16_Witness ==
    /\ pc = "return"
    /\ Len(draws) = 2
    /\ draws[1].val = RAND_MAX - 1
    /\ draws[2].val = RAND_MAX
    /\ ToByte(data[1]) = 255
    /\ InputBytes = <<0>>

\* positions of the buffer the finished run replaced
ReplacedPositions(ds) == {ds[n].pos : n \in {m \in 1..Len(ds) : ds[m].kind = "value"}}

\* ------------------------------------------------------------------------
\* C17.  The mutator is content-blind: two runs over inputs of the same
\* length, seeded with the same second, take the same draws, so they
\* replace the same positions and write the same value at each of them,
\* whatever bytes the two inputs hold; every other position keeps the byte
\* of the run's own input.
C17_ContentBlind ==
    (/\ pc = "done" /\ HasInput /\ PrevHadInput
     /\ Len(fs[prev[1].path].bytes) = Len(InputBytes)
     /\ SameSecond(prev[1].tick, now)) =>
        /\ draws = prev[1].draws
        /\ ReplacedPositions(draws) = ReplacedPositions(prev[1].draws)
        /\ \A k \in 0..(Len(InputBytes) - 1) :
              IF k \in ReplacedPositions(draws)
                 THEN /\ data[k + 1] = prev[1].data[k + 1]
                      /\ out[k + 1] = prev[1].out[k + 1]
                 ELSE /\ out[k + 1] = InputBytes[k + 1]
                      /\ prev[1].out[k + 1] = fs[prev[1].path].bytes[k + 1]

C17_Witness ==
    /\ pc = "done" /\ HasInput /\ PrevHadInput
    /\ Len(InputBytes) = MaxLen
    /\ Len(fs[prev[1].path].bytes) = MaxLen
    /\ \A k \in 1..MaxLen : fs[prev[1].path].bytes[k] # InputBytes[k]
    /\ 0 \in {InputBytes[k] : k \in 1..MaxLen}
    /\ SameSecond(prev[1].tick, now)
    /\ ReplacedPositions(draws) # {}
    /\ ReplacedPositions(draws) # 0..(MaxLen - 1)
    /\ out # prev[1].out

\* ------------------------------------------------------------------------
\* C18.  Bytes are opaque: as long as no position has been replaced the
\* buffer holds the input file byte for byte, and a run that replaced
\* nothing writes exactly the input bytes followed by one newline to
\* standard output, for every byte value 0..255 (NUL, newline and the
\* other control bytes included).
C18_OpaqueBytes ==
    (HasInput /\ pc \in BufferLive /\ ReplacedPositions(draws) = {}) =>
        /\ Len(data) = Len(InputBytes)
        /\ \A k \in 1..Len(data) : ToByte(data[k]) = InputBytes[k]
        /\ pc = "done" =>
              (/\ out = InputBytes \o <<10>>
               /\ Len(out) = Len(InputBytes) + 1
               /\ status = 0)

C18_Witness ==
    /\ pc = "done" /\ HasInput
    /\ InputBytes = <<0>>
    /\ Len(draws) = 1 /\ ReplacedPositions(draws) = {}
    /\ out = <<0, 10>>

\* ------------------------------------------------------------------------
\* C19.  A failure ends the run right after its report: the step that
\* writes the usage message or the open-failure message leads to the
\* return of status 1, and from the report to the exit nothing else
\* happens: no open or read, no seeding or draw after it, no write to
\* either stream, no second attempt to open the file.
C19_FailureEndsRun ==
    /\ [](err # <<>> =>
             /\ pc \in {"fail", "done"}
             /\ input \in {"none", "failed"}
             /\ out = <<>> /\ data = <<>> /\ draws = <<>>
             /\ pc = "done" => status = 1)
    /\ [][/\ (err = <<>> /\ err' # <<>>) =>
                (/\ pc \in {"start", "open"}
                 /\ pc' = "fail"
                 /\ UNCHANGED <<fs, rng, seeds, data, i, out, draws, status>>)
          /\ (err # <<>> /\ pc # "done") =>
                (/\ pc' = "done" /\ status' = 1
                 /\ UNCHANGED <<fs, rng, seeds, input, data, i, out, err, draws>>)]_vars

C19_Witness ==
    /\ pc = "done" /\ status = 1 /\ input = "failed" /\ out = <<>>
    /\ prev # <<>> /\ prev[1].status = 1 /\ prev[1].argc # 2
    /\ prev[1].out = <<>> /\ prev[1].draws = <<>>

\* ------------------------------------------------------------------------
\* C20.  For every length the buffer can hold, the int loop counter takes
\* the values 0, 1, ..., L and never leaves the range of int: it stays in
\* 0..INT_MAX and has the value L when the loop is left.  The buffer
\* length is a size_t; from L = INT_MAX + 1 on, the increment that follows
\* position INT_MAX overflows.
C20_CounterNeverOverflows ==
    /\ ctr.hi = 0
    /\ pc = "return" => ctr = size

\* ------------------------------------------------------------------------
\* C7 on a large buffer: when the loop is left every position of the
\* input has had its decision draw.  Positions from INT_MAX + 1 on have
\* none in the build where the counter of C20 wraps.
C7_EveryPositionDecided ==
    pc = "return" => ~WideLess(decided, size)

\* place of a control point in the order of the phases of main()
PhaseOf(p) ==
    CASE p = "start" -> 0
      [] p = "srand" -> 1
      [] p = "open" -> 2
      [] p = "read" -> 3
      [] p = "close" -> 4
      [] p \in {"loop", "replace"} -> 5
      [] p = "return" -> 6
      [] p = "fail" -> 7
      [] p = "done" -> 8

\* ------------------------------------------------------------------------
\* C21.  The phases of a run come in one order: argument check, seeding,
\* open, read, close, loop, write, exit; a run moves from a phase to the
\* next one, or from the argument check or the open to the failure exit.
\* The handle is opened at most once, and it is closed before the first
\* draw and before any output; a run with a wrong argument count neither
\* seeds the generator nor opens a file; a run whose open fails has
\* seeded the generator and takes no draw.
C21_PhaseOrder ==
    /\ [](/\ input = "open" <=> pc \in {"read", "close"}
          /\ input = "closed" <=> pc \in {"loop", "replace", "return"} \/ (pc = "done" /\ status = 0)
          /\ (draws # <<>> \/ out # <<>>) => input = "closed"
          /\ data # <<>> => input \in {"open", "closed"}
          /\ argc # 2 => (seeds = <<>> /\ rng = Unseeded /\ input = "none" /\ draws = <<>>)
          /\ input = "failed" => (Len(seeds) = 1 /\ draws = <<>> /\ data = <<>>)
          /\ PhaseOf(pc) >= 2 /\ argc = 2 => Len(seeds) = 1)
    /\ [][pc # "done" =>
            /\ pc' # pc => \/ PhaseOf(pc') = PhaseOf(pc) + 1 /\ pc' # "fail"
                           \/ pc \in {"loop", "replace"} /\ pc' \in {"loop", "replace"}
                           \/ pc \in {"start", "open"} /\ pc' = "fail"
                           \/ pc = "return" /\ pc' = "done"
            /\ pc' = pc => pc = "loop"
            /\ input' # input =>
                  \/ input = "none" /\ pc = "open" /\ input' \in {"open", "failed"}
                  \/ input = "open" /\ pc = "close" /\ input' = "closed"
            /\ fs' # fs => pc = "open"
            /\ seeds' # seeds => pc = "srand"
            /\ data' # data => pc \in {"read", "replace"}
            /\ draws' # draws => pc \in {"loop", "replace"}
            /\ out' # out => (pc = "loop" /\ pc' = "return")]_vars

C21_Witness ==
    /\ pc = "done" /\ status = 1
    /\ input = "failed" /\ Len(seeds) = 1 /\ draws = <<>>
    /\ prev # <<>> /\ prev[1].status = 0
    /\ Len(prev[1].draws) > MaxLen

(***************************************************************************)
(* The Go seed: main() starts genInts(3) and genInts(2), merges them with *)
(* fanIn under a context that a timeout may cancel at any moment, and     *)
(* ranges over the merged channel.  All channels are unbuffered: a send   *)
(* and the matching receive are one step.  The state is taken from the    *)
(* moment fanIn has returned; a goroutine that has not been scheduled yet *)
(* stands at its first statement.                                         *)
(***************************************************************************)
\* c1 := genInts(3);  c2 := genInts(2)
GenCount == <<3, 2>>

\* the producers; forwarder p of fanIn reads the channel of producer p
Gens == 1..Len(GenCount)

NoValue == -1

\* variant: Done() leaves the counter of the wait group alone
WgDoneLost(n) == n

\* wg.Done()
WgDone(n) == n - 1

\* variant: Wait() returns while one forwarder is still running
WgWaitReturnsEarly(n) == n <= 1

\* wg.Wait() returns
WgWaitReturns(n) == n = 0

\* the process lives until main returns
GoAlive == gmain \in {"range", "after"}

InitGo ==
    /\ ctxDone = FALSE
    /\ gen = [p \in Gens |-> [i |-> 0, closed |-> FALSE]]
    /\ fwd = [p \in Gens |-> [at |-> "select", v |-> NoValue]]
    /\ wg = Len(GenCount)
    /\ closer = "wait"
    /\ outCloses = 0
    /\ gmain = "range"
    /\ merged = <<>>
    /\ taken = <<>>
    /\ FlexIdle /\ KindIdle
    /\ LargeIdle
    /\ pc = "done"
    /\ fs = [p \in Paths |-> AbsentFile]
    /\ now = 0
    /\ prev = <<>>
    /\ argc = 1
    /\ path = NoPath
    /\ rng = Unseeded
    /\ seeds = <<>>
    /\ input = "none"
    /\ data = <<>>
    /\ i = 0
    /\ out = <<>>
    /\ err = <<>>
    /\ status = Running
    /\ draws = <<>>

GoFrame == UNCHANGED <<pc, mainVars, largeVars, flexVars, kindVars>>

\* context.WithTimeout(..., 5*time.Millisecond): the timer fires
Timeout ==
    /\ GoAlive
    /\ ~ctxDone
    /\ ctxDone' = TRUE
    /\ UNCHANGED <<gen, fwd, wg, closer, outCloses, gmain, merged, taken>>
    /\ GoFrame

\* genInts: ch <- i   met by fanIn:  case v, ok := <-ch  (ok)
GenSend(p) ==
    /\ GoAlive
    /\ ~gen[p].closed
    /\ gen[p].i < GenCount[p]
    /\ fwd[p].at = "select"
    /\ gen' = [gen EXCEPT ![p].i = @ + 1]
    /\ fwd' = [fwd EXCEPT ![p] = [at |-> "send", v |-> gen[p].i]]
    /\ taken' = Append(taken, <<p, gen[p].i>>)
    /\ UNCHANGED <<ctxDone, wg, closer, outCloses, gmain, merged>>
    /\ GoFrame

\* genInts: the loop is over;  defer close(ch)
GenClose(p) ==
    /\ GoAlive
    /\ ~gen[p].closed
    /\ gen[p].i = GenCount[p]
    /\ gen' = [gen EXCEPT ![p].closed = TRUE]
    /\ UNCHANGED <<ctxDone, fwd, wg, closer, outCloses, gmain, merged, taken>>
    /\ GoFrame

\* fanIn: case v, ok := <-ch  with !ok:  return;  defer wg.Done()
FwdInputClosed(p) ==
    /\ GoAlive
    /\ fwd[p].at = "select"
    /\ gen[p].closed
    /\ fwd' = [fwd EXCEPT ![p] = [at |-> "returned", v |-> NoValue]]
    /\ wg' = WgDone(wg)
    /\ UNCHANGED <<ctxDone, gen, closer, outCloses, gmain, merged, taken>>
    /\ GoFrame

\* fanIn: case <-ctx.Done() of the outer select:  return;  defer wg.Done()
FwdCancelledIdle(p) ==
    /\ GoAlive
    /\ fwd[p].at = "select"
    /\ ctxDone
    /\ fwd' = [fwd EXCEPT ![p] = [at |-> "returned", v |-> NoValue]]
    /\ wg' = WgDone(wg)
    /\ UNCHANGED <<ctxDone, gen, closer, outCloses, gmain, merged, taken>>
    /\ GoFrame

\* fanIn: case <-ctx.Done() of the inner select:  return;  defer wg.Done()
FwdCancelledSending(p) ==
    /\ GoAlive
    /\ fwd[p].at = "send"
    /\ ctxDone
    /\ fwd' = [fwd EXCEPT ![p] = [at |-> "returned", v |-> NoValue]]
    /\ wg' = WgDone(wg)
    /\ UNCHANGED <<ctxDone, gen, closer, outCloses, gmain, merged, taken>>
    /\ GoFrame

\* fanIn: case out <- v   met by main:  for v := range merged
FwdSend(p) ==
    /\ GoAlive
    /\ fwd[p].at = "send"
    /\ gmain = "range"
    /\ outCloses = 0
    /\ merged' = Append(merged, <<p, fwd[p].v>>)
    /\ fwd' = [fwd EXCEPT ![p] = [at |-> "select", v |-> NoValue]]
    /\ UNCHANGED <<ctxDone, gen, wg, closer, outCloses, gmain, taken>>
    /\ GoFrame

\* fanIn: wg.Wait() returns
CloserWait ==
    /\ GoAlive
    /\ closer = "wait"
    /\ WgWaitReturns(wg)
    /\ closer' = "close"
    /\ UNCHANGED <<ctxDone, gen, fwd, wg, outCloses, gmain, merged, taken>>
    /\ GoFrame

\* fanIn: close(out)
CloserClose ==
    /\ GoAlive
    /\ closer = "close"
    /\ outCloses' = outCloses + 1
    /\ closer' = "done"
    /\ UNCHANGED <<ctxDone, gen, fwd, wg, gmain, merged, taken>>
    /\ GoFrame

\* main: range merged finds the channel closed
RangeEnd ==
    /\ gmain = "range"
    /\ outCloses > 0
    /\ gmain' = "after"
    /\ UNCHANGED <<ctxDone, gen, fwd, wg, closer, outCloses, merged, taken>>
    /\ GoFrame

\* main returns:  defer cancel();  the process ends
MainReturn ==
    /\ gmain = "after"
    /\ gmain' = "exit"
    /\ ctxDone' = TRUE
    /\ UNCHANGED <<gen, fwd, wg, closer, outCloses, merged, taken>>
    /\ GoFrame

GoStep ==
    \/ \E p \in Gens : GenSend(p)
    \/ \E p \in Gens : GenClose(p)
    \/ \E p \in Gens : FwdInputClosed(p)
    \/ \E p \in Gens : FwdCancelledIdle(p)
    \/ \E p \in Gens : FwdCancelledSending(p)
    \/ \E p \in Gens : FwdSend(p)
    \/ CloserWait
    \/ CloserClose
    \/ RangeEnd
    \/ MainReturn

NextGo == Timeout \/ GoStep

SpecGo == InitGo /\ [][NextGo]_vars

\* a goroutine that can take a step is scheduled in the end; the timer
\* need not fire before the work is done
SpecGoFair == InitGo /\ [][NextGo]_vars /\ WF_vars(GoStep)

\* every forwarding goroutine of fanIn has returned
AllForwardersReturned == \A p \in Gens : fwd[p].at = "returned"

\* ------------------------------------------------------------------------
\* C22.  In fanIn, under every interleaving of forwarders, closer and
\* cancellation: close(out) is executed at most once, and only after every
\* forwarder has returned, so no forwarder stands at its send on a closed
\* output channel; once main has left its range loop the channel has been
\* closed exactly once.  Every value delivered on the output channel was
\* received from the input channel of the forwarder that delivered it,
\* and is delivered at most once.
C22_CloseOnceAfterForwarders ==
    /\ [](/\ outCloses \in {0, 1}
          /\ closer \in {"close", "done"} => AllForwardersReturned
          /\ outCloses > 0 => (closer = "done" /\ AllForwardersReturned)
          /\ \A p \in Gens : fwd[p].at = "send" => outCloses = 0
          /\ gmain \in {"after", "exit"} => outCloses = 1
          /\ wg = Cardinality({p \in Gens : fwd[p].at # "returned"})
          /\ \A n \in 1..Len(merged) :
                /\ \E m \in 1..Len(taken) : taken[m] = merged[n]
                /\ merged[n][2] \in 0..(GenCount[merged[n][1]] - 1)
          /\ \A m, n \in 1..Len(merged) : m # n => merged[m] # merged[n]
          /\ \A m, n \in 1..Len(taken) : m # n => taken[m] # taken[n]
          /\ Len(merged) <= Len(taken))
    /\ [][/\ outCloses' # outCloses =>
                (outCloses = 0 /\ outCloses' = 1 /\ AllForwardersReturned)
          /\ merged' # merged =>
                \E p \in Gens : /\ fwd[p].at = "send"
                                /\ merged' = Append(merged, <<p, fwd[p].v>>)
                                /\ \E m \in 1..Len(taken) : taken[m] = <<p, fwd[p].v>>
                                /\ outCloses = 0
         ]_vars

C22_Witness ==
    /\ outCloses = 1
    /\ ctxDone /\ gmain = "range"
    /\ merged # <<>>
    /\ Len(merged) < Len(taken)
    /\ \E p \in Gens : ~gen[p].closed

\* ------------------------------------------------------------------------
\* C23.  Under fair scheduling the merged channel is closed in the end in
\* every execution of main, whether the producers are drained and closed
\* first or the context is cancelled first, and the range loop over it
\* terminates.
C23_MergedEventuallyClosed ==
    <>(outCloses = 1 /\ gmain \in {"after", "exit"})

C23_Witness ==
    /\ gmain = "after" /\ outCloses = 1
    /\ ctxDone
    /\ merged = <<>>
    /\ \A p \in Gens : ~gen[p].closed

\* ------------------------------------------------------------------------
\* C24.  Every producer started by genInts sends all n of its values and
\* closes its channel in the end, in every execution, the cancelled ones
\* included.  A forwarder that has returned on ctx.Done() no longer
\* receives, and the producer stays at its unbuffered send.
C24_ProducersFinish ==
    <>(\A p \in Gens : gen[p].closed /\ gen[p].i = GenCount[p])

(***************************************************************************)
(* The C seed, main(): the block with the flexible array member.  malloc  *)
(* may fail; the block it returns holds indeterminate values.  Every      *)
(* access to the block is recorded in ops.                                *)
(***************************************************************************)
\* size_t len = 4;
FlexLen == 4

\* sizeof(struct Flex) and sizeof(int) with an 8-byte size_t and a 4-byte int
SizeofFlex == 8

SizeofInt == 4

\* values an uninitialized int of the block may show
GarbageSample == {-1, 0, 7}

\* variant: the header of the structure is left out of the request
AllocSizeNoHeader(n) == n * SizeofInt

\* malloc(sizeof(*f) + len * sizeof(int))
AllocSize(n) == SizeofFlex + n * SizeofInt

\* elements of data[] that lie inside a block of the given size
ElementsIn(bytes) == (bytes - SizeofFlex) \div SizeofInt

\* (int)(i * 2)
StoredValue(k) == k * 2

InitFlex ==
    /\ fpc = "malloc"
    /\ block = "none"
    /\ mem = <<>>
    /\ fidx = 0
    /\ ops = <<>>
    /\ GoIdle /\ KindIdle
    /\ LargeIdle
    /\ pc = "done"
    /\ fs = [p \in Paths |-> AbsentFile]
    /\ now = 0
    /\ prev = <<>>
    /\ argc = 1
    /\ path = NoPath
    /\ rng = Unseeded
    /\ seeds = <<>>
    /\ input = "none"
    /\ data = <<>>
    /\ i = 0
    /\ out = <<>>
    /\ err = <<>>
    /\ status = Running
    /\ draws = <<>>

FlexFrame == UNCHANGED <<pc, mainVars, largeVars, goVars, kindVars>>

\* struct Flex *f = malloc(...): a block is returned
MallocOk ==
    /\ fpc = "malloc"
    /\ block' = "live"
    /\ \E l \in GarbageSample, d \in [1..ElementsIn(AllocSize(FlexLen)) -> GarbageSample] :
          mem' = [len |-> l, data |-> d]
    /\ ops' = Append(ops, [op |-> "malloc", idx |-> ElementsIn(AllocSize(FlexLen))])
    /\ fpc' = "check"
    /\ UNCHANGED fidx
    /\ FlexFrame

\* struct Flex *f = malloc(...): NULL is returned
MallocFails ==
    /\ fpc = "malloc"
    /\ block' = "null"
    /\ fpc' = "check"
    /\ UNCHANGED <<mem, fidx, ops>>
    /\ FlexFrame

\* if (!f) return EXIT_FAILURE;
ReturnFailure ==
    /\ fpc = "check"
    /\ block = "null"
    /\ fpc' = "exit_failure"
    /\ UNCHANGED <<block, mem, fidx, ops>>
    /\ FlexFrame

\* f->len = len;  for (size_t i = 0; ...
StoreLen ==
    /\ fpc = "check"
    /\ block # "null"
    /\ mem' = [mem EXCEPT !.len = FlexLen]
    /\ ops' = Append(ops, [op |-> "store_len", idx |-> 0])
    /\ fidx' = 0
    /\ fpc' = "loop"
    /\ UNCHANGED block
    /\ FlexFrame

\* i < len:  f->data[i] = (int)(i * 2);  i++
\* (a store outside the block is recorded and leaves the block as it is)
StoreElement ==
    /\ fpc = "loop"
    /\ fidx < FlexLen
    /\ mem' = IF fidx < Len(mem.data)
                 THEN [mem EXCEPT !.data[fidx + 1] = StoredValue(fidx)]
                 ELSE mem
    /\ ops' = Append(ops, [op |-> "store", idx |-> fidx])
    /\ fidx' = fidx + 1
    /\ UNCHANGED <<fpc, block>>
    /\ FlexFrame

\* the loop condition fails;  the compound literal;  tls_counter++
LoopDone ==
    /\ fpc = "loop"
    /\ ~(fidx < FlexLen)
    /\ fpc' = "free"
    /\ UNCHANGED <<block, mem, fidx, ops>>
    /\ FlexFrame

\* free(f);
Free ==
    /\ fpc = "free"
    /\ block' = "freed"
    /\ ops' = Append(ops, [op |-> "free", idx |-> 0])
    /\ fpc' = "return"
    /\ UNCHANGED <<mem, fidx>>
    /\ FlexFrame

\* return (base + s + tls_counter) ? 0 : 0;
ReturnSuccess ==
    /\ fpc = "return"
    /\ fpc' = "exit_success"
    /\ UNCHANGED <<block, mem, fidx, ops>>
    /\ FlexFrame

NextFlex ==
    \/ MallocOk \/ MallocFails \/ ReturnFailure \/ StoreLen
    \/ StoreElement \/ LoopDone \/ Free \/ ReturnSuccess

SpecFlex == InitFlex /\ [][NextFlex]_vars

\* positions in ops of the operations of one kind
OpsOf(name) == {n \in 1..Len(ops) : ops[n].op = name}

\* ------------------------------------------------------------------------
\* C25.  On the path where malloc returned a block, the block is released
\* at most once, exactly once before main returns, and nothing is stored
\* into it after the release; every store to data[i] has i below len, the
\* element count the block was sized for, no element is stored twice, and
\* at the release the block holds len and the values 0, 2, 4, 6.  On the
\* path where malloc fails nothing is stored or released and main returns
\* the failure status.
C25_FlexReleasedOnce ==
    /\ [](/\ Cardinality(OpsOf("free")) <= 1
          /\ block = "freed" <=> OpsOf("free") # {}
          /\ \A n \in OpsOf("free") : n = Len(ops)
          /\ \A n \in OpsOf("store") \cup OpsOf("store_len") :
                /\ OpsOf("malloc") = {1} /\ n > 1
                /\ ops[n].idx < FlexLen
                /\ ops[n].idx < ops[1].idx
                /\ ops[n].idx >= 0
          /\ \A m, n \in OpsOf("store") : m < n => ops[m].idx < ops[n].idx
          /\ block = "null" => (ops = <<>> /\ mem = <<>> /\ fpc \in {"check", "exit_failure"})
          /\ fpc = "exit_failure" => block = "null"
          /\ fpc \in {"return", "exit_success"} =>
                /\ block = "freed"
                /\ Cardinality(OpsOf("free")) = 1
                /\ Cardinality(OpsOf("store")) = FlexLen
                /\ mem.len = FlexLen
                /\ mem.data = <<0, 2, 4, 6>>)
    /\ [][/\ ops' # ops => (block # "freed" /\ block # "null")
          /\ mem' # mem => (block \in {"none", "live"} /\ block' = "live")
          /\ block = "freed" => block' = "freed"]_vars

C25_Witness ==
    /\ fpc = "exit_success"
    /\ block = "freed"
    /\ Len(ops) = FlexLen + 3
    /\ ops[Len(ops)].op = "free"
    /\ ops[Len(ops) - 1] = [op |-> "store", idx |-> FlexLen - 1]

(***************************************************************************)
(* The C seed, next_kind: the function applied again and again to a       *)
(* kind_t object, which may start with any value of its integer type: the *)
(* four kinds and values on either side of them.                          *)
(***************************************************************************)
\* values tried on either side of the four kinds
KindSpan == 6
\* applications of next_kind in a row
MaxKindSteps == 8

\* typedef enum { KIND_NONE = 0, KIND_ALPHA = 1, KIND_BETA = 2, KIND_GAMMA = 3 } kind_t;
KIND_NONE == 0

KIND_ALPHA == 1

KIND_BETA == 2

KIND_GAMMA == 3

Kinds == {KIND_NONE, KIND_ALPHA, KIND_BETA, KIND_GAMMA}

KindValues == (KIND_NONE - KindSpan)..(KIND_GAMMA + KindSpan)

\* variant: KIND_GAMMA is followed by KIND_ALPHA
next_kind_skipping_none(k) ==
    CASE k = KIND_NONE -> KIND_ALPHA
      [] k = KIND_ALPHA -> KIND_BETA
      [] k = KIND_BETA -> KIND_GAMMA
      [] k = KIND_GAMMA -> KIND_ALPHA
      [] OTHER -> KIND_NONE

\* switch (k) { case ...: return ...; default: return KIND_NONE; }
next_kind(k) ==
    CASE k = KIND_NONE -> KIND_ALPHA
      [] k = KIND_ALPHA -> KIND_BETA
      [] k = KIND_BETA -> KIND_GAMMA
      [] k = KIND_GAMMA -> KIND_NONE
      [] OTHER -> KIND_NONE

InitKind ==
    /\ kstart \in KindValues
    /\ curKind = kstart
    /\ ksteps = 0
    /\ GoIdle /\ FlexIdle
    /\ LargeIdle
    /\ pc = "done"
    /\ fs = [p \in Paths |-> AbsentFile]
    /\ now = 0
    /\ prev = <<>>
    /\ argc = 1
    /\ path = NoPath
    /\ rng = Unseeded
    /\ seeds = <<>>
    /\ input = "none"
    /\ data = <<>>
    /\ i = 0
    /\ out = <<>>
    /\ err = <<>>
    /\ status = Running
    /\ draws = <<>>

\* k = next_kind(k);
ApplyNextKind ==
    /\ ksteps < MaxKindSteps
    /\ curKind' = next_kind(curKind)
    /\ ksteps' = ksteps + 1
    /\ UNCHANGED kstart
    /\ UNCHANGED <<pc, mainVars, largeVars, goVars, flexVars>>

NextKind == ApplyNextKind

SpecKind == InitKind /\ [][NextKind]_vars

\* ------------------------------------------------------------------------
\* C26.  next_kind is a cycle over the four kinds: an application takes
\* KIND_NONE to KIND_ALPHA, KIND_ALPHA to KIND_BETA, KIND_BETA to
\* KIND_GAMMA and KIND_GAMMA to KIND_NONE, so from a kind the first four
\* values are the four kinds, each once, and the fourth application gives
\* the starting kind again; a value that is none of the four kinds is
\* taken to KIND_NONE, so after the first application the value is always
\* one of the four kinds.
C26_FourStateCycle ==
    /\ [](/\ ksteps >= 1 => curKind \in {0, 1, 2, 3}
          /\ kstart \in {0, 1, 2, 3} => curKind = (kstart + ksteps) % 4
          /\ (kstart \notin {0, 1, 2, 3} /\ ksteps >= 1) => curKind = (ksteps - 1) % 4
          /\ (kstart \in {0, 1, 2, 3} /\ ksteps % 4 = 0) => curKind = kstart
          /\ KIND_NONE = 0 /\ KIND_ALPHA = 1 /\ KIND_BETA = 2 /\ KIND_GAMMA = 3)
    /\ [][ksteps' # ksteps =>
            /\ curKind = 0 => curKind' = 1
            /\ curKind = 1 => curKind' = 2
            /\ curKind = 2 => curKind' = 3
            /\ curKind = 3 => curKind' = 0
            /\ curKind \notin {0, 1, 2, 3} => curKind' = 0
            /\ curKind \in {0, 1, 2, 3} => curKind' # curKind]_vars

C26_Witness ==
    /\ kstart = KIND_GAMMA
    /\ ksteps = 4
    /\ curKind = KIND_GAMMA

====
